---- MODULE Spec2Model ----
(***************************************************************************)
(* CloudHunter (cloudhunter.py): the bucket classifier, the provider ACL   *)
(* enumerators, the worker pool of search_buckets / what_cloud, the        *)
(* permutation generator and the HiddenGems crawler.                       *)
(*                                                                         *)
(* Python strings are TLA+ strings; `x in s`, s.split, s[:8] and the       *)
(* f-strings are computed on them character by character.                  *)
(***************************************************************************)
EXTENDS Integers, Sequences, FiniteSets, TLC

VARIABLES
    \* ---- one call of Bucket.process_status (SpecClassify)
    cb,        \* the Bucket the call mutates
    cresp,     \* its argument: a Response or the failure marker False
    cpc,       \* position in the call: "new", "rights", "returned", "raised"
    cbase,     \* the Bucket as it was when get_rights was entered
    cacl,      \* the ACL routine get_rights called: "none", "azure", "google", "aws"
    cenv,      \* what the network answered to that routine's requests
    \* ---- generate_permutations (SpecPerm)
    gbase,     \* argument base_name
    glines,    \* the lines of the affix file
    gi,        \* number of affixes already consumed by the for loop
    gp,        \* the list p
    gpc,       \* "loop" or "returned"
    \* ---- one dispatch of search_buckets / what_cloud (SpecPool, SpecPoolFair)
    mode,      \* "search" or "what": which dispatcher runs
    pcloud,    \* search_buckets' cloud argument
    ntasks,    \* N, the number of tasks queued
    nworkers,  \* W = num_threads
    q,         \* the Queue's items, head first
    unfinished,\* Queue.unfinished_tasks
    results,   \* the shared results list
    wpc,       \* each worker thread's position
    wtask,     \* the task each worker holds (0: none)
    wbucket,   \* each worker's local b while it is not yet in results
    mainpc,    \* the dispatcher: "join" or "returned"
    deq,       \* per task: how many times q.get() returned it
    done,      \* per task: how many times task_done() was called for it
    made,      \* per task: a Bucket was constructed for it
    dnsfail,   \* per task: check_dns returned False for it
    aclerr,    \* per task: its ACL enumeration raised
    basecls,   \* per task: the Bucket as get_rights found it
    probed,    \* per task: an HTTP probe was issued for it
    taskdata,  \* the tuples put on the queue, in put order; q holds positions
    \* ---- one crawl invocation of HiddenGems (SpecCrawl)
    known_urls,\* HiddenGems.known_urls, the class-level list
    stack,     \* the call stack of HiddenGems.__init__ / crawl frames
    fetched,   \* every requests.get issued, in order: <<kind, url, outcome>>
    tree,      \* finished nodes: url -> its urls / childs
    crawlpc,   \* "run", "returned" or "listed"
    web,       \* what a requests.get may give during this invocation
    listing    \* the list returned by list_urls on the seed node

vars == <<cb, cresp, cpc, cbase, cacl, cenv, gbase, glines, gi, gp, gpc,
          mode, pcloud, ntasks, nworkers, q, unfinished, results, wpc, wtask,
          wbucket, mainpc, deq, done, made, dnsfail, aclerr, basecls,
          probed, taskdata, known_urls, stack, fetched, tree, crawlpc,
          web, listing>>

classifyVars == <<cb, cresp, cpc, cbase, cacl, cenv>>
permVars == <<gbase, glines, gi, gp, gpc>>
poolVars == <<mode, pcloud, ntasks, nworkers, q, unfinished, results, wpc, wtask,
              wbucket, mainpc, deq, done, made, dnsfail, aclerr, basecls,
              probed, taskdata>>
crawlVars == <<known_urls, stack, fetched, tree, crawlpc, web, listing>>

-----------------------------------------------------------------------------
(* Python string helpers *)

\* `sub in s`
Contains(s, sub) ==
    \E i \in 1..(Len(s) - Len(sub) + 1) : SubSeq(s, i, i + Len(sub) - 1) = sub

\* s.endswith(suf)
EndsWith(s, suf) ==
    Len(s) >= Len(suf) /\ SubSeq(s, Len(s) - Len(suf) + 1, Len(s)) = suf

\* s.startswith(pre)
StartsWith(s, pre) ==
    Len(s) >= Len(pre) /\ SubSeq(s, 1, Len(pre)) = pre

\* the element of the one-element set S; a name bound over {e} holds the
\* value of e, so that e is computed once however often the name is used
The(S) == CHOOSE x \in S : TRUE

\* the first position of the one-character c in str, or 0
IndexOf(str, c) ==
    The({IF \A i \in 1..Len(s) : SubSeq(s, i, i) # c THEN 0
         ELSE CHOOSE i \in 1..Len(s) :
                 SubSeq(s, i, i) = c /\ \A j \in 1..(i - 1) : SubSeq(s, j, j) # c :
         s \in {str}})

\* the last position of the one-character c in str, or 0
LastIndexOf(str, c) ==
    The({IF \A i \in 1..Len(s) : SubSeq(s, i, i) # c THEN 0
         ELSE CHOOSE i \in 1..Len(s) :
                 SubSeq(s, i, i) = c /\ \A j \in (i + 1)..Len(s) : SubSeq(s, j, j) # c :
         s \in {str}})

\* s.split(sep)[-1] for a one-character sep
LastPart(str, sep) ==
    The({SubSeq(s, LastIndexOf(s, sep) + 1, Len(s)) : s \in {str}})

\* s.split(sep) for a one-character sep
RECURSIVE Split(_, _)
Split(str, sep) ==
    The({The({IF c = 0 THEN <<s>>
              ELSE <<SubSeq(s, 1, c - 1)>> \o Split(SubSeq(s, c + 1, Len(s)), sep) :
              c \in {IndexOf(s, sep)}}) :
         s \in {str}})

\* sep.join(parts)
RECURSIVE Join(_, _)
Join(parts, sep) ==
    IF parts = <<>> THEN ""
    ELSE IF Len(parts) = 1 THEN parts[1]
    ELSE parts[1] \o sep \o Join(Tail(parts), sep)

\* the subsequences of seq that keep only positions of idx, in order
RECURSIVE Pick(_, _, _)
Pick(seq, idx, i) ==
    IF i > Len(seq) THEN <<>>
    ELSE (IF i \in idx THEN <<seq[i]>> ELSE <<>>) \o Pick(seq, idx, i + 1)

-----------------------------------------------------------------------------
(* Bucket and Response *)

\* the module-level base_name set in __main__
base_name == "acme"

\* check_host's and process_status' failure marker (no Response has status 0)
False == [status_code |-> 0, content_type |-> "", history |-> <<>>, url |-> ""]

Bucket(name, domain, cloud, srv_name) ==
    [name |-> name, domain |-> domain, cloud |-> cloud, srv_name |-> srv_name,
     state |-> "CLOSE", risk |-> "LOW", details |-> <<>>]

\* StatusRule with the seed-name rule applied after the status rule
StatusRule_SeedLast(b, response) ==
    LET sc == response.status_code
        ct == response.content_type
        b1 == IF sc = 200
              THEN IF ct # "" /\ Contains(ct, "application/xml")
                   THEN [b EXCEPT !.state = "OPEN", !.risk = "HIGH",
                                  !.details = Append(@, "LIST")]
                   ELSE [b EXCEPT !.state = "OPEN", !.risk = "MEDIUM"]
              ELSE IF sc \in {400, 401, 403}
              THEN [b EXCEPT !.state = "PRIVATE"]
              ELSE IF sc \in {500, 502, 503}
              THEN [b EXCEPT !.state = "OPEN", !.risk = "MEDIUM",
                             !.details = Append(@, "WebApp Error")]
              ELSE [b EXCEPT !.state = "UNKNOWN", !.risk = "MEDIUM",
                             !.details = Append(@, "Response: " \o ToString(sc))]
    IN  IF b.name = base_name THEN [b1 EXCEPT !.risk = "MEDIUM"] ELSE b1

\* StatusRule that rates every azure candidate HIGH
StatusRule_ByCloud(b, response) ==
    [StatusRule_SeedLast(b, response) EXCEPT
        !.risk = IF b.cloud = "azure" THEN "HIGH" ELSE @]

\* StatusRule with 401 missing from the access-denied statuses
StatusRule_No401(b, response) ==
    LET b1 == IF b.name = base_name THEN [b EXCEPT !.risk = "MEDIUM"] ELSE b
        sc == response.status_code
        ct == response.content_type
    IN  IF sc = 200
        THEN IF ct # "" /\ Contains(ct, "application/xml")
             THEN [b1 EXCEPT !.state = "OPEN", !.risk = "HIGH",
                             !.details = Append(@, "LIST")]
             ELSE [b1 EXCEPT !.state = "OPEN", !.risk = "MEDIUM"]
        ELSE IF sc \in {400, 403}
        THEN [b1 EXCEPT !.state = "PRIVATE"]
        ELSE IF sc \in {500, 502, 503}
        THEN [b1 EXCEPT !.state = "OPEN", !.risk = "MEDIUM",
                        !.details = Append(@, "WebApp Error")]
        ELSE [b1 EXCEPT !.state = "UNKNOWN", !.risk = "MEDIUM",
                        !.details = Append(@, "Response: " \o ToString(sc))]

\* lines 86-105: the seed-name rule and the status rule
StatusRule(b, response) ==
    LET b1 == IF b.name = base_name THEN [b EXCEPT !.risk = "MEDIUM"] ELSE b
        sc == response.status_code
        ct == response.content_type
    IN  IF sc = 200
        THEN IF ct # "" /\ Contains(ct, "application/xml")
             THEN [b1 EXCEPT !.state = "OPEN", !.risk = "HIGH",
                             !.details = Append(@, "LIST")]
             ELSE [b1 EXCEPT !.state = "OPEN", !.risk = "MEDIUM"]
        ELSE IF sc \in {400, 401, 403}
        THEN [b1 EXCEPT !.state = "PRIVATE"]
        ELSE IF sc \in {500, 502, 503}
        THEN [b1 EXCEPT !.state = "OPEN", !.risk = "MEDIUM",
                        !.details = Append(@, "WebApp Error")]
        ELSE [b1 EXCEPT !.state = "UNKNOWN", !.risk = "MEDIUM",
                        !.details = Append(@, "Response: " \o ToString(sc))]

\* RedirectOverride forcing the state but leaving the risk as it was
RedirectOverride_KeepRisk(b, response) ==
    IF Len(response.history) # 0 /\ response.history[1] \in {301, 302}
    THEN LET b1 == [b EXCEPT !.details = Append(@, "Redirect " \o response.url)]
         IN  IF Contains(response.url, "login") \/ Contains(response.url, "signin")
             THEN [b1 EXCEPT !.state = "PRIVATE"]
             ELSE b1
    ELSE b

\* lines 107-111: the redirect override
RedirectOverride(b, response) ==
    IF Len(response.history) # 0 /\ response.history[1] \in {301, 302}
    THEN LET b1 == [b EXCEPT !.details = Append(@, "Redirect " \o response.url)]
         IN  IF Contains(response.url, "login") \/ Contains(response.url, "signin")
             THEN [b1 EXCEPT !.state = "PRIVATE", !.risk = "LOW"]
             ELSE b1
    ELSE b

-----------------------------------------------------------------------------
(* Provider ACL enumeration.  Each enumerator takes the Bucket and env, the  *)
(* answers the network gives to its requests, and yields                    *)
(* [b |-> the Bucket as the call leaves it, raised |-> it raised].          *)

\* line 145
COMMON_CONTAINERS ==
    <<"images", "mycontainer", "downloads", "backup", "backups", "web", "website",
      "private", "uploads", "page", "static", "logs", "admin">>

\* lines 145-148: the containers _azure_acl tries for Bucket b
Containers(b) ==
    COMMON_CONTAINERS \o <<b.name>>
        \o (IF b.name # base_name THEN <<base_name>> ELSE <<>>)

\* _azure_acl that opens the Bucket on a finding and leaves its risk alone
_azure_acl_KeepRisk(b, env) ==
    LET isFile == Contains(b.domain, "file.core.windows.net")
        isBlob == Contains(b.domain, "blob.core.windows.net")
        b1 == IF isFile /\ env.share = "200"
              THEN [b EXCEPT !.state = "OPEN", !.details = Append(@, "List Shares")]
              ELSE b
        findings == Pick(Containers(b), env.listed, 1)
    IN  IF isFile /\ env.share = "exc"
        THEN [b |-> b, raised |-> FALSE]
        ELSE IF isBlob /\ findings # <<>>
        THEN [b |-> [b1 EXCEPT !.state = "OPEN",
                        !.details = Append(@, "Containers: " \o Join(findings, ","))],
              raised |-> FALSE]
        ELSE [b |-> b1, raised |-> FALSE]

\* lines 133-161.  env.share: the answer to ?comp=list ("200", "other", or
\* "exc" when requests.get raises); env.listed: the positions in Containers(b)
\* whose listing request answers 200 (every other one answers another status
\* or raises, which line 156 swallows).
_azure_acl(b, env) ==
    LET isFile == Contains(b.domain, "file.core.windows.net")
        isBlob == Contains(b.domain, "blob.core.windows.net")
        b1 == IF isFile /\ env.share = "200"
              THEN [b EXCEPT !.risk = "HIGH", !.state = "OPEN",
                             !.details = Append(@, "List Shares")]
              ELSE b
        findings == Pick(Containers(b), env.listed, 1)
    IN  IF isFile /\ env.share = "exc"
        THEN [b |-> b, raised |-> FALSE]                       \* line 142
        ELSE IF isBlob /\ findings # <<>>
        THEN [b |-> [b1 EXCEPT !.risk = "HIGH", !.state = "OPEN",
                        !.details = Append(@, "Containers: " \o Join(findings, ","))],
              raised |-> FALSE]
        ELSE [b |-> b1, raised |-> FALSE]

\* lines 163-185.  env.gexc: requests.get or .json() raised;
\* env.permissions: the "permissions" of the JSON answer (empty when absent).
_google_acl(b, env) ==
    IF env.gexc THEN [b |-> b, raised |-> TRUE]                \* line 165, uncaught
    ELSE IF env.permissions = {} THEN [b |-> b, raised |-> FALSE]
    ELSE LET acl == env.permissions
             w == \/ "storage.objects.create" \in acl
                  \/ "storage.objects.delete" \in acl
                  \/ "storage.objects.update" \in acl
             v == "storage.buckets.setIamPolicy" \in acl
             symb == (IF "storage.objects.list" \in acl THEN "L" ELSE "")
                     \o (IF "storage.objects.get" \in acl THEN "R" ELSE "")
                     \o (IF w THEN "W" ELSE "")
                     \o (IF v THEN "V" ELSE "")
         IN  [b |-> [b EXCEPT !.risk = IF w \/ v THEN "HIGH" ELSE @,
                              !.details = Append(@, "AllUsers [" \o symb \o "]")],
              raised |-> FALSE]

\* a key the parsed XML does not hold
NoKey == "<no key>"
\* the local symb before any branch of lines 206-213 assigned it
Unbound == "<unbound>"

\* lines 199-204: the grantee key, or NoKey when the lookup raises KeyError
GranteeKey(g) ==
    IF g.xsitype = NoKey THEN NoKey
    ELSE IF g.xsitype = "CanonicalUser" /\ g.DisplayName # NoKey THEN g.DisplayName
    ELSE IF g.xsitype = "Group"
    THEN (IF g.URI = NoKey THEN NoKey ELSE LastPart(g.URI, "/"))
    ELSE IF g.ID = NoKey THEN NoKey
    ELSE SubSeq(g.ID, 1, IF Len(g.ID) < 8 THEN Len(g.ID) ELSE 8)

\* lines 206-213: the symbol after this grant; an unmatched Permission leaves
\* symb as the previous iteration left it
PermSymbol(perm, symb) ==
    IF perm \in {"READ", "READ_ACP"} THEN "R"
    ELSE IF perm \in {"WRITE", "WRITE_ACL"} THEN "W"
    ELSE IF perm = "FULL_CONTROL" THEN "F"
    ELSE symb

\* lines 215-218 on the dict rights, kept as its items in insertion order
AddRight(rights, user, symb) ==
    IF \A k \in 1..Len(rights) : rights[k].user # user
    THEN Append(rights, [user |-> user, symb |-> symb])
    ELSE [k \in 1..Len(rights) |->
            IF rights[k].user = user /\ ~Contains(rights[k].symb, symb)
            THEN [rights[k] EXCEPT !.symb = @ \o symb]
            ELSE rights[k]]

\* lines 198-218: the for loop from grant i on
RECURSIVE AwsLoop(_, _, _, _, _)
AwsLoop(grants, i, rights, symb, risk) ==
    IF i > Len(grants) THEN [rights |-> rights, risk |-> risk, raised |-> FALSE]
    ELSE LET g == grants[i]
             user == GranteeKey(g)
             s == PermSymbol(g.Permission, symb)
             r == IF g.Permission \in {"WRITE", "WRITE_ACL", "FULL_CONTROL"}
                  THEN "HIGH" ELSE risk
         IN  IF user = NoKey
             THEN [rights |-> rights, risk |-> risk, raised |-> TRUE]   \* KeyError
             ELSE IF s = Unbound
             THEN [rights |-> rights, risk |-> r, raised |-> TRUE]      \* line 216
             ELSE AwsLoop(grants, i + 1, AddRight(rights, user, s), s, r)

\* lines 220-221
RECURSIVE RightsDetails(_, _)
RightsDetails(details, rights) ==
    IF rights = <<>> THEN details
    ELSE RightsDetails(Append(details, rights[1].user \o " [" \o rights[1].symb \o "]"),
                       Tail(rights))

\* lines 187-221.  env.akind: "exc" (requests.get or xmltodict.parse raised),
\* "nopolicy" (a document without AccessControlPolicy) or "grants";
\* env.grants: the Grant elements of the AccessControlList.  xmltodict gives
\* None for an empty AccessControlList and a dict, not a list, for one Grant:
\* line 194 then line 199 raise TypeError.
_aws_acl(b, env) ==
    IF env.akind = "exc" THEN [b |-> b, raised |-> TRUE]
    ELSE IF env.akind = "nopolicy" THEN [b |-> b, raised |-> FALSE]
    ELSE IF Len(env.grants) < 2 THEN [b |-> b, raised |-> TRUE]
    ELSE LET l == AwsLoop(env.grants, 1, <<>>, Unbound, b.risk)
         IN  IF l.raised
             THEN [b |-> [b EXCEPT !.risk = l.risk], raised |-> TRUE]
             ELSE [b |-> [b EXCEPT !.risk = l.risk,
                                   !.details = RightsDetails(@, l.rights)],
                   raised |-> FALSE]

\* the routine called whatever the state is
Enumerator_IgnoreState(b) ==
    IF b.cloud \in {"azure", "google", "aws"} THEN b.cloud ELSE "none"

\* lines 123-131: the ACL routine get_rights calls for b
Enumerator(b) ==
    IF b.cloud = "azure" THEN "azure"
    ELSE IF b.state # "OPEN" THEN "none"
    ELSE IF b.cloud \in {"google", "aws"} THEN b.cloud
    ELSE "none"

\* lines 122-131
get_rights(b, env) ==
    IF Enumerator(b) = "azure" THEN _azure_acl(b, env)
    ELSE IF Enumerator(b) = "google" THEN _google_acl(b, env)
    ELSE IF Enumerator(b) = "aws" THEN _aws_acl(b, env)
    ELSE [b |-> b, raised |-> FALSE]

\* lines 82-111: the Bucket as process_status returns it at line 84 or hands
\* it to get_rights at line 113
BaseClass(b, response) ==
    IF response = False THEN [b EXCEPT !.state = "DOMAIN"]
    ELSE RedirectOverride(StatusRule(b, response), response)

\* lines 81-113: the whole call
process_status(b, response, env) ==
    IF response = False
    THEN [b |-> BaseClass(b, response), raised |-> FALSE]
    ELSE get_rights(BaseClass(b, response), env)

-----------------------------------------------------------------------------
(* The inputs the model draws from *)

\* most listing requests of one _azure_acl call that answer 200
MaxFindings == 1
\* most permissions in one testPermissions answer
MaxPerms == 2
\* most Grant elements in one ACL document
MaxGrants == 2

\* the subsets of U with at most k elements
RECURSIVE UpTo(_, _)
UpTo(U, k) ==
    IF k = 0 THEN {{}}
    ELSE LET P == UpTo(U, k - 1) IN P \cup {S \cup {x} : S \in P, x \in U}

\* candidate names: the seed itself and one permutation of it
Names == {base_name, base_name \o "-dev"}

\* cloud, srv_name, srv_url: rows of googleCloud, awsCloud, azureCloud
\* (lines 25-53) and the default cloud of Bucket.__init__ (line 72)
Services ==
    { <<"generic", "Generic", "example.com">>,
      <<"google", "Google Storage", "storage.googleapis.com">>,
      <<"aws", "AWS Bucket", "s3.amazonaws.com">>,
      <<"azure", "Storage Files", "file.core.windows.net">>,
      <<"azure", "Storage Blobs", "blob.core.windows.net">>,
      <<"azure", "App Azure", "azurewebsites.net">> }

Statuses == {200, 400, 401, 403, 500, 502, 503, 404}
ContentTypes == {"", "text/html", "application/xml"}
Histories == {<<>>, <<301>>, <<302>>, <<307>>, <<307, 302>>}
FinalUrls == {"https://acme.example/", "https://acme.example/login",
              "https://signin.example/"}

Responses ==
    [status_code : Statuses, content_type : ContentTypes,
     history : Histories, url : FinalUrls]

\* the permissions the testPermissions URL of line 164 asks for
GooglePermissions ==
    {"storage.buckets.delete", "storage.buckets.get", "storage.buckets.getIamPolicy",
     "storage.buckets.setIamPolicy", "storage.buckets.update",
     "storage.objects.create", "storage.objects.delete", "storage.objects.get",
     "storage.objects.list", "storage.objects.update"}

Grantees ==
    { [xsitype |-> "CanonicalUser", DisplayName |-> "alice",
       URI |-> NoKey, ID |-> "0123456789abcdef"],
      [xsitype |-> "Group", DisplayName |-> NoKey,
       URI |-> "http://acs.amazonaws.com/groups/global/AllUsers", ID |-> NoKey],
      [xsitype |-> "AmazonCustomerByEmail", DisplayName |-> NoKey,
       URI |-> NoKey, ID |-> NoKey] }

Permissions == {"READ", "WRITE", "WRITE_ACP"}

Grants ==
    { [xsitype |-> g.xsitype, DisplayName |-> g.DisplayName, URI |-> g.URI,
       ID |-> g.ID, Permission |-> p] : g \in Grantees, p \in Permissions }

GrantLists == UNION { [1..n -> Grants] : n \in 0..MaxGrants }

\* the network answering nothing of interest
QuietEnv ==
    [share |-> "other", listed |-> {}, gexc |-> FALSE, permissions |-> {},
     akind |-> "nopolicy", grants |-> <<>>]

\* what the network may answer to the requests get_rights issues for b
AclEnvs(b) ==
    IF b.cloud = "azure"
    THEN { [QuietEnv EXCEPT !.share = sh, !.listed = l] :
             sh \in (IF Contains(b.domain, "file.core.windows.net")
                     THEN {"200", "other", "exc"} ELSE {"other"}),
             l \in (IF Contains(b.domain, "blob.core.windows.net")
                    THEN UpTo(1..Len(Containers(b)), MaxFindings) ELSE {{}}) }
    ELSE IF Enumerator(b) = "google"
    THEN {[QuietEnv EXCEPT !.gexc = TRUE]}
         \cup { [QuietEnv EXCEPT !.permissions = ps] : ps \in UpTo(GooglePermissions, MaxPerms) }
    ELSE IF Enumerator(b) = "aws"
    THEN {[QuietEnv EXCEPT !.akind = "exc"], QuietEnv}
         \cup { [QuietEnv EXCEPT !.akind = "grants", !.grants = gs] : gs \in GrantLists }
    ELSE {QuietEnv}

-----------------------------------------------------------------------------
(* The parts of the state a specification does not use stay as they are here *)

IdleClassify ==
    /\ cb = Bucket("", "", "generic", "Generic")
    /\ cresp = False
    /\ cpc = "idle"
    /\ cacl = "none"
    /\ cenv = QuietEnv
    /\ cbase = Bucket("", "", "generic", "Generic")

IdlePerm ==
    /\ gbase = ""
    /\ glines = <<>>
    /\ gi = 0
    /\ gp = <<>>
    /\ gpc = "idle"

IdlePool ==
    /\ mode = "idle"
    /\ pcloud = "generic"
    /\ ntasks = 0
    /\ nworkers = 0
    /\ q = <<>>
    /\ unfinished = 0
    /\ results = <<>>
    /\ wpc = <<>>
    /\ wtask = <<>>
    /\ wbucket = <<>>
    /\ mainpc = "idle"
    /\ deq = <<>>
    /\ done = <<>>
    /\ made = <<>>
    /\ dnsfail = <<>>
    /\ aclerr = <<>>
    /\ basecls = <<>>
    /\ probed = <<>>
    /\ taskdata = <<>>

\* listing before any call of list_urls
NoListing == [scope |-> FALSE, full_query |-> FALSE, result |-> <<>>]

IdleCrawl ==
    /\ known_urls = <<>>
    /\ stack = <<>>
    /\ fetched = <<>>
    /\ tree = <<>>
    /\ crawlpc = "idle"
    /\ web = {}
    /\ listing = NoListing

-----------------------------------------------------------------------------
(* SpecClassify: one call b.process_status(response) on a fresh Bucket *)

InitClassify ==
    /\ \E n \in Names, s \in Services :
          cb = Bucket(n, n \o "." \o s[3], s[1], s[2])
    /\ cresp \in Responses \cup {False}
    /\ cpc = "new"
    /\ cbase = cb
    /\ cacl = "none"
    /\ cenv = QuietEnv
    /\ IdlePerm /\ IdlePool /\ IdleCrawl

\* lines 82-111
ClsStatus ==
    /\ cpc = "new"
    /\ IF cresp = False
       THEN /\ cb' = [cb EXCEPT !.state = "DOMAIN"]
            /\ cpc' = "returned"
       ELSE /\ cb' = RedirectOverride(StatusRule(cb, cresp), cresp)
            /\ cpc' = "rights"
    /\ cbase' = cb'
    /\ UNCHANGED <<cresp, cacl, cenv, permVars, poolVars, crawlVars>>

\* line 113
ClsRights ==
    /\ cpc = "rights"
    /\ \E env \in AclEnvs(cb) :
          LET r == get_rights(cb, env)
          IN  /\ cb' = r.b
              /\ cpc' = IF r.raised THEN "raised" ELSE "returned"
              /\ cenv' = env
    /\ cacl' = Enumerator(cb)
    /\ UNCHANGED <<cresp, cbase, permVars, poolVars, crawlVars>>

NextClassify == ClsStatus \/ ClsRights

SpecClassify == InitClassify /\ [][NextClassify]_vars

-----------------------------------------------------------------------------
(* Claims about process_status, under SpecClassify *)

\* the call is over: it returned, or an exception left it
ClsOver == cpc \in {"returned", "raised"}

\* the redirect history's first hop is 301/302 and the final URL names a login page
LoginRedirect(response) ==
    /\ response # False
    /\ Len(response.history) # 0
    /\ response.history[1] \in {301, 302}
    /\ (Contains(response.url, "login") \/ Contains(response.url, "signin"))

\* _azure_acl recorded a listable share or container as its last finding
AzureFound(b) ==
    /\ b.cloud = "azure"
    /\ b.details # <<>>
    /\ LET d == b.details[Len(b.details)]
       IN  d = "List Shares" \/ StartsWith(d, "Containers: ")

\* C6 as stated: after a redirect to a login page the final result of
\* process_status is PRIVATE / LOW, for every provider including azure.
C6_AlwaysPrivateLow ==
    (ClsOver /\ LoginRedirect(cresp)) => (cb.state = "PRIVATE" /\ cb.risk = "LOW")

\* C6 amended: after a redirect to a login page the final result is PRIVATE /
\* LOW for generic, aws and google, and for azure unless _azure_acl then finds
\* a listable share or container, which makes it OPEN / HIGH.
C6_PrivateLowUnlessAzureFound ==
    (ClsOver /\ LoginRedirect(cresp)) =>
        \/ cb.state = "PRIVATE" /\ cb.risk = "LOW" /\ cpc = "returned"
        \/ AzureFound(cb) /\ cb.state = "OPEN" /\ cb.risk = "HIGH"

\* a 200 application/xml answer (OPEN / HIGH before the override) redirected
\* to a login page ends PRIVATE / LOW
C6_Witness ==
    /\ cpc = "returned"
    /\ LoginRedirect(cresp)
    /\ cresp.status_code = 200
    /\ cresp.content_type = "application/xml"
    /\ cresp.history[1] = 302
    /\ cb.cloud = "aws"
    /\ cb.state = "PRIVATE"
    /\ cb.risk = "LOW"

\* the response is a 200 whose Content-Type contains application/xml
XmlListing(response) ==
    /\ response # False
    /\ response.status_code = 200
    /\ Contains(response.content_type, "application/xml")

InDetails(b, d) == \E k \in 1..Len(b.details) : b.details[k] = d

\* C7 as stated: a 200 application/xml answer always ends OPEN / HIGH with
\* LIST among the details.
C7_AlwaysOpenHigh ==
    (ClsOver /\ XmlListing(cresp)) =>
        (cb.state = "OPEN" /\ cb.risk = "HIGH" /\ InDetails(cb, "LIST"))

\* C7 amended: a 200 application/xml answer always has LIST among the details,
\* and ends OPEN / HIGH unless its redirect history leads to a login page.
C7_OpenHighUnlessLoginRedirect ==
    (ClsOver /\ XmlListing(cresp)) =>
        /\ InDetails(cb, "LIST")
        /\ ~LoginRedirect(cresp) => (cb.state = "OPEN" /\ cb.risk = "HIGH")

\* the seed name itself, listable, and redirected but not to a login page
C7_Witness ==
    /\ cpc = "returned"
    /\ XmlListing(cresp)
    /\ cresp.history = <<301>>
    /\ ~LoginRedirect(cresp)
    /\ cb.name = base_name
    /\ cb.state = "OPEN"
    /\ cb.risk = "HIGH"
    /\ cb.details[1] = "LIST"

\* the response is an access-denied one
Denied(response) == response # False /\ response.status_code \in {400, 401, 403}

\* C8 as stated: a 400 / 401 / 403 answer always ends PRIVATE, whatever the
\* name and the provider.
C8_AlwaysPrivate ==
    (ClsOver /\ Denied(cresp)) => cb.state = "PRIVATE"

\* C8 amended: a 400 / 401 / 403 answer ends PRIVATE whether or not the name
\* is the seed name, for generic, aws and google, and for azure unless
\* _azure_acl finds a listable share or container, which makes it OPEN.
C8_PrivateUnlessAzureFound ==
    (ClsOver /\ Denied(cresp)) =>
        \/ cb.state = "PRIVATE" /\ cpc = "returned"
        \/ AzureFound(cb) /\ cb.state = "OPEN"

\* a 401 for the seed name: risk was pre-raised to MEDIUM, state is PRIVATE
C8_Witness ==
    /\ cpc = "returned"
    /\ cresp # False
    /\ cresp.status_code = 401
    /\ cb.name = base_name
    /\ cb.cloud = "google"
    /\ cb.risk = "MEDIUM"
    /\ cb.state = "PRIVATE"

-----------------------------------------------------------------------------
(* SpecPerm: one call generate_permutations(base_name, dict_file) *)

\* most lines in the affix file
MaxAffixes == 2

PermBases == {"acme", "x1", "a.b"}
\* a blank line of the file is an empty affix
Affixes == {"dev", "prod", ""}
AffixFiles == UNION { [1..n -> Affixes] : n \in 0..MaxAffixes }

\* line 389: each rule is the text between its two {}
rules == <<"-", ".", "">>

\* Format with its two arguments exchanged
Format_Swapped(x, a, b) == b \o x \o a

\* x.format(a, b) for rule x
Format(x, a, b) == a \o x \o b

\* lines 395-396: what one affix adds to p
AffixNames(base, affix) ==
    [k \in 1..3 |-> Format(rules[k], affix, base)]
        \o [k \in 1..3 |-> Format(rules[k], base, affix)]

InitPerm ==
    /\ gbase \in PermBases
    /\ glines \in AffixFiles
    /\ gi = 0
    /\ gp = <<>>
    /\ gpc = "start"
    /\ IdleClassify /\ IdlePool /\ IdleCrawl

\* lines 388-392
PermStart ==
    /\ gpc = "start"
    /\ gp' = <<gbase>>
    /\ gpc' = "loop"
    /\ UNCHANGED <<gbase, glines, gi, classifyVars, poolVars, crawlVars>>

\* lines 394-396: one iteration of the for loop
PermAffix ==
    /\ gpc = "loop"
    /\ gi < Len(glines)
    /\ gp' = gp \o AffixNames(gbase, glines[gi + 1])
    /\ gi' = gi + 1
    /\ UNCHANGED <<gbase, glines, gpc, classifyVars, poolVars, crawlVars>>

\* line 398
PermReturn ==
    /\ gpc = "loop"
    /\ gi = Len(glines)
    /\ gpc' = "returned"
    /\ UNCHANGED <<gbase, glines, gi, gp, classifyVars, poolVars, crawlVars>>

NextPerm == PermStart \/ PermAffix \/ PermReturn

SpecPerm == InitPerm /\ [][NextPerm]_vars

\* entry k (1..6) of the block of affix a, base first
BaseFirst(b, a, k) ==
    CASE k = 1 -> b \o "-" \o a
      [] k = 2 -> b \o "." \o a
      [] k = 3 -> b \o a
      [] k = 4 -> a \o "-" \o b
      [] k = 5 -> a \o "." \o b
      [] k = 6 -> a \o b

\* entry k (1..6) of the block of affix a, affix first
AffixFirst(b, a, k) ==
    CASE k = 1 -> a \o "-" \o b
      [] k = 2 -> a \o "." \o b
      [] k = 3 -> a \o b
      [] k = 4 -> b \o "-" \o a
      [] k = 5 -> b \o "." \o a
      [] k = 6 -> b \o a

\* C9 as stated: the result is [b] followed, per affix in file order, by
\* b-a, b.a, ba, a-b, a.b, ab.
C9_BaseFirstOrder ==
    gpc = "returned" =>
        /\ Len(gp) = 1 + 6 * Len(glines)
        /\ gp[1] = gbase
        /\ \A i \in 1..Len(glines), k \in 1..6 :
              gp[1 + 6 * (i - 1) + k] = BaseFirst(gbase, glines[i], k)

\* C9 amended: the result is [b] followed, per affix in file order, by the six
\* names a-b, a.b, ab, b-a, b.a, ba in that order, nothing removed; for acme and
\* dev: acme, dev-acme, dev.acme, devacme, acme-dev, acme.dev, acmedev.
C9_AffixFirstOrder ==
    gpc = "returned" =>
        /\ Len(gp) = 1 + 6 * Len(glines)
        /\ gp[1] = gbase
        /\ \A i \in 1..Len(glines), k \in 1..6 :
              gp[1 + 6 * (i - 1) + k] = AffixFirst(gbase, glines[i], k)
        /\ (gbase = "acme" /\ glines = <<"dev">>) =>
              gp = <<"acme", "dev-acme", "dev.acme", "devacme",
                     "acme-dev", "acme.dev", "acmedev">>

\* the call for acme and the one-line file dev has returned its seven names
C9_Witness ==
    /\ gpc = "returned"
    /\ gbase = "acme"
    /\ glines = <<"dev">>
    /\ Len(gp) = 7

-----------------------------------------------------------------------------
(* SpecPool: one dispatch, search_buckets(cloud_dict, names, cloud) or      *)
(* what_cloud(urls), from the moment the queue is filled and the worker     *)
(* threads are started.                                                     *)

\* most tasks on the queue
MaxTasks == 3
\* most worker threads (num_threads)
MaxWorkers == 2

\* lines 25-53, as their items() in order
googleCloud ==
    << <<"Google Storage", "storage.googleapis.com">>,
       <<"Google App Engine", "appspot.com">> >>
awsCloud == << <<"AWS Bucket", "s3.amazonaws.com">> >>
azureCloud ==
    << <<"Storage Files", "file.core.windows.net">>,
       <<"Storage Blobs", "blob.core.windows.net">>,
       <<"Storage Queues", "queue.core.windows.net">>,
       <<"Storage Tables", "table.core.windows.net">>,
       <<"App Management", "scm.azurewebsites.net">>,
       <<"App Azure", "azurewebsites.net">>,
       <<"App Web", "p.azurewebsites.net">>,
       <<"CloudApp", "cloudapp.net">>,
       <<"Key Vaults", "vault.azure.net">>,
       <<"Azure CDN", "azureedge.net">>,
       <<"Search Appliance", "search.windows.net">>,
       <<"API Services", "azure-api.net">>,
       <<"Hosted Domain", "onmicrosoft.com">>,
       <<"Databases-Redis", "redis.cache.windows.net">>,
       <<"Databases-CosmosDB", "documents.azure.com">>,
       <<"Databases-MSSQL", "database.windows.net">>,
       <<"Email", "mail.protection.outlook.com">>,
       <<"SharePoint", "sharepoint.com">> >>

\* d.values()
Values(d) == {d[k][2] : k \in 1..Len(d)}

\* lines 415-422 on raw, what requests.head gave: a Response, or False when it raised
check_host(raw) ==
    IF raw = False THEN False
    ELSE IF raw.status_code \in {404} THEN False
    ELSE raw

\* an exception was raised inside the ACL enumeration of b, caught or not
AclRaises(b, env) ==
    IF b.cloud = "azure"
    THEN Contains(b.domain, "file.core.windows.net") /\ env.share = "exc"
    ELSE get_rights(b, env).raised

\* nothing was recorded for the task
NoBucket == Bucket("", "", "generic", "Generic")
Discarded(wasProbed) ==
    [probed |-> wasProbed, made |-> FALSE, b |-> NoBucket, base |-> NoBucket,
     raised |-> FALSE, aclerr |-> FALSE]

\* lines 456-457 and 528-529: construct the Bucket and classify it
Classified(name, domain, cloud, srv_name, response, env) ==
    LET b == Bucket(name, domain, cloud, srv_name)
        r == process_status(b, response, env)
    IN  [probed |-> TRUE, made |-> TRUE, b |-> r.b, base |-> BaseClass(b, response),
         raised |-> r.raised,
         aclerr |-> response # False /\ AclRaises(BaseClass(b, response), env)]

\* SearchOutcome that probes and classifies whatever check_dns answered
SearchOutcome_IgnoreDns(cloud, work, dns, raw, env) ==
    LET response == check_host(raw)
    IN  IF response # False \/ cloud = "azure"
        THEN Classified(work.name, work.domain, cloud, work.srv_name, response, env)
        ELSE Discarded(TRUE)

\* lines 446-457 for the tuple work: dns is check_dns' result, raw the
\* outcome of the HEAD request of check_host, env the answers to ACL requests
SearchOutcome(cloud, work, dns, raw, env) ==
    IF ~dns THEN Discarded(FALSE)
    ELSE LET response == check_host(raw)
         IN  IF response # False \/ cloud = "azure"
             THEN Classified(work.name, work.domain, cloud, work.srv_name, response, env)
             ELSE Discarded(TRUE)

\* lines 500-511: the provider of a URL, or "none" (task_done and continue)
Fingerprint(headers, u) ==
    IF headers \cap {"x-amz-request-id", "x-amz-id-2"} # {}
       \/ \E n \in Values(awsCloud) : Contains(u.fqdn, n)
    THEN "aws"
    ELSE IF headers \cap {"X-GUploader-UploadID", "x-goog-metageneration",
                          "X-Cloud-Trace-Context"} # {}
            \/ \E n \in Values(googleCloud) : Contains(u.fqdn, n)
    THEN (IF EndsWith(u.netloc, ".google.com") THEN "none" ELSE "google")
    ELSE IF headers \cap {"x-ms-request-id"} # {}
            \/ \E n \in Values(azureCloud) : Contains(u.fqdn, n)
    THEN "azure"
    ELSE "none"

\* cloud.capitalize()
Capitalize(cloud) ==
    CASE cloud = "aws" -> "Aws" [] cloud = "google" -> "Google" [] cloud = "azure" -> "Azure"

\* lines 514-526; a name taken from the path is the one-element list srv,
\* whose text is ['segment']
DerivedName(u) ==
    LET srv == SubSeq(Split(u.path, "/"), 2, 2)
    IN  IF Len(Split(u.netloc, ".")) > 3 THEN Split(u.netloc, ".")[1]
        ELSE IF srv = <<>> THEN u.domain_name
        ELSE IF u.domain_name \in {"amazonaws", "amazon", "google", "googleapis",
                                   "appspot", "azure", "azureedge", "windows"}
        THEN "['" \o srv[1] \o "']"
        ELSE u.domain_name

\* lines 491-529 for the URL u: raw is the outcome of requests.head (False
\* when it raised), headers the names of the response's headers
WhatOutcome(u, raw, headers, env) ==
    IF raw = False THEN Discarded(TRUE)
    ELSE LET cloud == Fingerprint(headers, u)
         IN  IF cloud = "none" THEN Discarded(TRUE)
             ELSE Classified(DerivedName(u), u.url, cloud,
                             Capitalize(cloud) \o " Cloud", raw, env)

\* ---- inputs

\* the names search_buckets is given: generate_permutations' result
PoolNames == <<base_name>> \o AffixNames(base_name, "dev")

\* one-row cloud dicts, with search_buckets' cloud argument
PoolDicts ==
    { <<"google", googleCloud[1]>>, <<"aws", awsCloud[1]>>, <<"azure", azureCloud[1]>> }

\* urlparse(url) and tldextract.extract(url) of the URLs what_cloud is given
PoolUrls ==
    << [url |-> "https://storage.googleapis.com/acme/", netloc |-> "storage.googleapis.com",
        fqdn |-> "storage.googleapis.com", domain_name |-> "googleapis", path |-> "/acme/"],
       [url |-> "https://acme.blob.core.windows.net/web", netloc |-> "acme.blob.core.windows.net",
        fqdn |-> "acme.blob.core.windows.net", domain_name |-> "windows", path |-> "/web"],
       [url |-> "https://sites.google.com", netloc |-> "sites.google.com",
        fqdn |-> "sites.google.com", domain_name |-> "google", path |-> ""],
       [url |-> "https://acme.s3.amazonaws.com/", netloc |-> "acme.s3.amazonaws.com",
        fqdn |-> "acme.s3.amazonaws.com", domain_name |-> "amazonaws", path |-> "/"] >>

\* what a HEAD request may give
PoolRaw ==
    { False,
      [status_code |-> 404, content_type |-> "", history |-> <<>>,
       url |-> "https://acme.example/"],
      [status_code |-> 200, content_type |-> "application/xml", history |-> <<>>,
       url |-> "https://acme.example/"] }

PoolHeaders == { {}, {"X-Cloud-Trace-Context"} }

PoolGrantLists ==
    { <<[xsitype |-> "CanonicalUser", DisplayName |-> "alice", URI |-> NoKey,
         ID |-> "0123456789abcdef", Permission |-> "READ"],
        [xsitype |-> "CanonicalUser", DisplayName |-> "alice", URI |-> NoKey,
         ID |-> "0123456789abcdef", Permission |-> "WRITE"]>>,
      <<[xsitype |-> "CanonicalUser", DisplayName |-> "alice", URI |-> NoKey,
         ID |-> "0123456789abcdef", Permission |-> "WRITE"],
        [xsitype |-> "AmazonCustomerByEmail", DisplayName |-> NoKey, URI |-> NoKey,
         ID |-> NoKey, Permission |-> "READ"]>> }

\* what the network may answer to the ACL requests of a Bucket of this cloud
PoolEnvs(cloud) ==
    IF cloud = "azure"
    THEN { [QuietEnv EXCEPT !.share = "200", !.listed = {1}],
           [QuietEnv EXCEPT !.share = "exc"] }
    ELSE IF cloud = "google"
    THEN { QuietEnv, [QuietEnv EXCEPT !.gexc = TRUE] }
    ELSE { [QuietEnv EXCEPT !.akind = "grants", !.grants = gs] : gs \in PoolGrantLists }

Tasks == 1..ntasks
Workers == 1..nworkers

InitPool ==
    /\ mode \in {"search", "what"}
    /\ ntasks = MaxTasks
    /\ nworkers = MaxWorkers
    /\ IF mode = "search"
       THEN \E d \in PoolDicts :
               /\ pcloud = d[1]
               /\ taskdata = [i \in 1..ntasks |->
                                [srv_name |-> d[2][1],
                                 domain |-> PoolNames[i] \o "." \o d[2][2],
                                 name |-> PoolNames[i]]]
       ELSE /\ pcloud = "generic"
            /\ taskdata = SubSeq(PoolUrls, 1, ntasks)
    /\ q = [i \in 1..ntasks |-> i]
    /\ unfinished = ntasks
    /\ results = <<>>
    /\ wpc = [w \in 1..nworkers |-> "loop"]
    /\ wtask = [w \in 1..nworkers |-> 0]
    /\ wbucket = [w \in 1..nworkers |-> NoBucket]
    /\ mainpc = "join"
    /\ deq = [t \in 1..ntasks |-> 0]
    /\ done = [t \in 1..ntasks |-> 0]
    /\ made = [t \in 1..ntasks |-> FALSE]
    /\ dnsfail = [t \in 1..ntasks |-> FALSE]
    /\ aclerr = [t \in 1..ntasks |-> FALSE]
    /\ basecls = [t \in 1..ntasks |-> NoBucket]
    /\ probed = [t \in 1..ntasks |-> FALSE]
    /\ IdleClassify /\ IdlePerm /\ IdleCrawl

\* lines 444 and 485: while not q.empty(); line 465: return
WorkerLoop(w) ==
    /\ wpc[w] = "loop"
    /\ wpc' = [wpc EXCEPT ![w] = IF q = <<>> THEN "exited" ELSE "get"]
    /\ UNCHANGED <<mode, pcloud, ntasks, nworkers, q, unfinished, results, wtask,
                   wbucket, mainpc, deq, done, made, dnsfail, aclerr, basecls,
                   probed, taskdata, classifyVars, permVars, crawlVars>>

\* WorkerGet that reads the head of the queue without removing it
WorkerGet_Peek(w) ==
    /\ wpc[w] = "get"
    /\ q # <<>>
    /\ wtask' = [wtask EXCEPT ![w] = Head(q)]
    /\ deq' = [deq EXCEPT ![Head(q)] = @ + 1]
    /\ wpc' = [wpc EXCEPT ![w] = "work"]
    /\ UNCHANGED <<mode, pcloud, ntasks, nworkers, q, unfinished, results,
                   wbucket, mainpc, done, made, dnsfail, aclerr, basecls,
                   probed, taskdata, classifyVars, permVars, crawlVars>>

\* lines 445 and 486: q.get(), which blocks while the queue is empty
WorkerGet(w) ==
    /\ wpc[w] = "get"
    /\ q # <<>>
    /\ wtask' = [wtask EXCEPT ![w] = Head(q)]
    /\ q' = Tail(q)
    /\ deq' = [deq EXCEPT ![Head(q)] = @ + 1]
    /\ wpc' = [wpc EXCEPT ![w] = "work"]
    /\ UNCHANGED <<mode, pcloud, ntasks, nworkers, unfinished, results,
                   wbucket, mainpc, done, made, dnsfail, aclerr, basecls,
                   probed, taskdata, classifyVars, permVars, crawlVars>>

\* where the worker goes with outcome o of its task: line 459 or 531 with a
\* classified Bucket, line 463 / 494 / 504 / 510 with none; an exception
\* that left process_status ends the thread
Record(w, o) ==
    /\ wpc' = [wpc EXCEPT ![w] = IF ~o.made THEN "task_done"
                                 ELSE IF o.raised THEN "dead" ELSE "append"]
    /\ wbucket' = [wbucket EXCEPT ![w] = o.b]
    /\ made' = [made EXCEPT ![wtask[w]] = o.made]
    /\ probed' = [probed EXCEPT ![wtask[w]] = o.probed]
    /\ aclerr' = [aclerr EXCEPT ![wtask[w]] = o.aclerr]
    /\ basecls' = [basecls EXCEPT ![wtask[w]] = o.base]

\* lines 446-457 of search_buckets_worker
SearchWork(w) ==
    /\ mode = "search"
    /\ wpc[w] = "work"
    /\ \E dns \in BOOLEAN, raw \in PoolRaw, env \in PoolEnvs(pcloud) :
          /\ Record(w, SearchOutcome(pcloud, taskdata[wtask[w]], dns, raw, env))
          /\ dnsfail' = [dnsfail EXCEPT ![wtask[w]] = ~dns]
    /\ UNCHANGED <<mode, pcloud, ntasks, nworkers, q, unfinished, results, wtask,
                   mainpc, deq, done, taskdata, classifyVars, permVars, crawlVars>>

\* lines 488-529 of what_cloud_worker
WhatWork(w) ==
    /\ mode = "what"
    /\ wpc[w] = "work"
    /\ \E raw \in PoolRaw, headers \in PoolHeaders :
          \E env \in PoolEnvs(Fingerprint(headers, taskdata[wtask[w]])) :
             /\ Record(w, WhatOutcome(taskdata[wtask[w]], raw, headers, env))
    /\ UNCHANGED <<mode, pcloud, ntasks, nworkers, q, unfinished, results, wtask,
                   mainpc, deq, done, dnsfail, taskdata,
                   classifyVars, permVars, crawlVars>>

\* lines 459-461 and 531-533: results.append(b); echo prints only
WorkerAppend(w) ==
    /\ wpc[w] = "append"
    /\ results' = Append(results, wbucket[w])
    /\ wbucket' = [wbucket EXCEPT ![w] = NoBucket]
    /\ wpc' = [wpc EXCEPT ![w] = "task_done"]
    /\ UNCHANGED <<mode, pcloud, ntasks, nworkers, q, unfinished, wtask,
                   mainpc, deq, done, made, dnsfail, aclerr, basecls,
                   probed, taskdata, classifyVars, permVars, crawlVars>>

\* lines 463, 494, 504, 510 and 535: q.task_done()
WorkerTaskDone(w) ==
    /\ wpc[w] = "task_done"
    /\ unfinished' = unfinished - 1
    /\ done' = [done EXCEPT ![wtask[w]] = @ + 1]
    /\ wpc' = [wpc EXCEPT ![w] = "loop"]
    /\ wtask' = [wtask EXCEPT ![w] = 0]
    /\ UNCHANGED <<mode, pcloud, ntasks, nworkers, q, results,
                   wbucket, mainpc, deq, made, dnsfail, aclerr, basecls,
                   probed, taskdata, classifyVars, permVars, crawlVars>>

\* MainReturn without the q.join(): the dispatcher returns at once
MainReturn_NoJoin ==
    /\ mainpc = "join"
    /\ mainpc' = "returned"
    /\ UNCHANGED <<mode, pcloud, ntasks, nworkers, q, unfinished, results, wpc, wtask,
                   wbucket, deq, done, made, dnsfail, aclerr, basecls,
                   probed, taskdata, classifyVars, permVars, crawlVars>>

\* lines 439-440 and 480-481: q.join() lets the dispatcher return results
MainReturn ==
    /\ mainpc = "join"
    /\ unfinished = 0
    /\ mainpc' = "returned"
    /\ UNCHANGED <<mode, pcloud, ntasks, nworkers, q, unfinished, results, wpc, wtask,
                   wbucket, deq, done, made, dnsfail, aclerr, basecls,
                   probed, taskdata, classifyVars, permVars, crawlVars>>

Worker(w) ==
    \/ WorkerLoop(w)
    \/ WorkerGet(w)
    \/ SearchWork(w)
    \/ WhatWork(w)
    \/ WorkerAppend(w)
    \/ WorkerTaskDone(w)

NextPool ==
    \/ MainReturn
    \/ \E w \in Workers : WorkerLoop(w)
    \/ \E w \in Workers : WorkerGet(w)
    \/ \E w \in Workers : SearchWork(w)
    \/ \E w \in Workers : WhatWork(w)
    \/ \E w \in Workers : WorkerAppend(w)
    \/ \E w \in Workers : WorkerTaskDone(w)

SpecPool == InitPool /\ [][NextPool]_vars

\* every thread that can take a step eventually takes one
SpecPoolFair ==
    /\ SpecPool
    /\ WF_vars(MainReturn)
    /\ \A w \in 1..MaxWorkers : WF_vars(w \in Workers /\ Worker(w))

-----------------------------------------------------------------------------
(* Claims about the dispatch, under SpecPool and SpecPoolFair *)

\* the domain the Bucket of task t carries
TaskDomain(t) == IF mode = "search" THEN taskdata[t].domain ELSE taskdata[t].url

\* the positions of results that hold the Bucket of task t
Entries(t) == {k \in 1..Len(results) : results[k].domain = TaskDomain(t)}

C2_DispatchReturns == <>(mainpc = "returned")

\* C3: when the ACL enumeration of a task's Bucket raised, the Bucket is on
\* its way into results or in results, with the state and risk of the base
\* classification.
C3_AclErrorKeepsBase ==
    \A t \in Tasks :
        aclerr[t] =>
            \/ \E w \in Workers :
                  /\ wtask[w] = t
                  /\ wpc[w] = "append"
                  /\ wbucket[w].state = basecls[t].state
                  /\ wbucket[w].risk = basecls[t].risk
            \/ \E k \in Entries(t) :
                  /\ results[k].state = basecls[t].state
                  /\ results[k].risk = basecls[t].risk

\* C4: a task marked done has its Bucket, if it made one, in results; the
\* dispatcher has returned only if every task is marked done; and after the
\* dispatcher returned results never changes.
C4_NothingAfterReturn ==
    /\ [](\A t \in Tasks : (done[t] = 1 /\ made[t]) => Entries(t) # {})
    /\ [](mainpc = "returned" => \A t \in Tasks : done[t] = 1)
    /\ [][mainpc = "returned" => results' = results]_vars

\* the dispatcher returned with Buckets in results while a worker thread is
\* still alive, blocked in q.get()
C4_Witness ==
    /\ mainpc = "returned"
    /\ Len(results) >= 2
    /\ \E w \in Workers : wpc[w] = "get"

\* C5 as stated: a candidate whose DNS resolution failed is recorded with
\* state DOMAIN.
C5_DnsFailRecordsDomain ==
    \A t \in Tasks :
        (dnsfail[t] /\ done[t] = 1) =>
            \E k \in Entries(t) : results[k].state = "DOMAIN"

\* C5 amended: for a candidate of search_buckets whose DNS resolution failed
\* no HTTP probe is issued, no Bucket is constructed and nothing is recorded
\* in results.
C5_DnsFailRecordsNothing ==
    \A t \in Tasks :
        dnsfail[t] => (~probed[t] /\ ~made[t] /\ Entries(t) = {})

\* the dispatch returned, one candidate's DNS resolution having failed
C5_Witness ==
    /\ mainpc = "returned"
    /\ \E t \in Tasks : dnsfail[t] /\ done[t] = 1
    /\ \E t \in Tasks : ~dnsfail[t] /\ made[t]

-----------------------------------------------------------------------------
(* HiddenGems: URL handling *)

\* the part of str before the first c (all of str when it has none)
Before(str, c) ==
    The({The({IF i = 0 THEN s ELSE SubSeq(s, 1, i - 1) : i \in {IndexOf(s, c)}}) :
         s \in {str}})

\* the part of str from the first c on, c included (empty when it has none)
From(str, c) ==
    The({The({IF i = 0 THEN "" ELSE SubSeq(s, i, Len(s)) : i \in {IndexOf(s, c)}}) :
         s \in {str}})

\* the part of str up to the last c, c included (empty when it has none)
UpToLast(str, c) == The({SubSeq(s, 1, LastIndexOf(s, c)) : s \in {str}})

\* s[n:]
Skip(str, n) == The({SubSeq(s, n + 1, Len(s)) : s \in {str}})

\* the parse result from the scheme, the text between :// and ?, and the query
ParseResult(scheme, front, query) ==
    The({[scheme |-> scheme, netloc |-> Before(f, "/"), path |-> From(f, "/"),
          query |-> query] : f \in {front}})

\* urlparse(u) of an absolute URL scheme://netloc/path?query
urlparse(u) ==
    The({ParseResult(Before(u, ":"), Before(rest, "?"), Skip(From(rest, "?"), 1)) :
         rest \in {Skip(From(u, ":"), 3)}})

\* lines 288-292 on the parsed URL u
BaseOf(u) ==
    u.scheme \o "://" \o u.netloc
        \o (IF u.path # ""
            THEN The({Join(SubSeq(parts, 1, Len(parts) - 1), "/") :
                        parts \in {Split(u.path, "/")}})
            ELSE u.path)

\* lines 286-292
get_base_url(url) == The({BaseOf(u) : u \in {urlparse(url)}})

\* urljoin onto the parsed base b
JoinOnto(b, src) ==
    IF Contains(src, "://") THEN src
    ELSE IF StartsWith(src, "/") THEN b.scheme \o "://" \o b.netloc \o src
    ELSE b.scheme \o "://" \o b.netloc
            \o The({IF dir = "" THEN "/" ELSE dir : dir \in {UpToLast(b.path, "/")}}) \o src

\* urljoin(base, src) for src an absolute URL, a path from the root, or a
\* path relative to base (no dot segments)
urljoin(base, src) == The({JoinOnto(b, src) : b \in {urlparse(base)}})

\* lines 301-304 on the parsed URL url
Unparse(url, full_query) ==
    IF full_query /\ url.query # ""
    THEN url.scheme \o "://" \o url.netloc \o url.path \o "?" \o url.query
    ELSE url.scheme \o "://" \o url.netloc \o url.path

\* lines 297-304
normalize_url(base_url, src, full_query) ==
    The({Unparse(url, full_query) : url \in {urlparse(j) : j \in {urljoin(base_url, src)}}})

\* line 228
skip_extensions ==
    {"exe", "bin", "pdf", "zip", "jpg", "png", "svg", "avi", "mp3", "mp4", "gz",
     "tar", "rar", "7z", "ttf", "otf", "woff", "woff2"}

\* lines 308-311 on parts = file.split('.'); the inputs are lower case
ExtensionOf(parts) == IF Len(parts) = 1 THEN "" ELSE parts[Len(parts)]

\* lines 306-311; None is the empty string (no extension is empty: the
\* inputs hold no name ending in a dot)
url_extension(base_url, url) ==
    The({ExtensionOf(Split(file, ".")) :
            file \in {LastPart(n, "/") : n \in {normalize_url(base_url, url, FALSE)}}})

\* a scope filter that lets every URL through
filter_scope_All(domain, values) == values

\* lines 294-295
filter_scope(domain, values) == {x \in values : domain = urlparse(x).netloc}

\* `url in self.known_urls`
IsKnown(url) == \E i \in 1..Len(known_urls) : known_urls[i] = url

\* a visited list that forgets: nothing is appended
Remember_Forget(known, url) == known

\* lines 245 and 276: self.known_urls.append(url), on the list all nodes share
Remember(known, url) == Append(known, url)

\* self.urls of a node whose crawl extracted nothing
NoUrls ==
    [js |-> {}, links |-> {}, styles |-> {}, images |-> {}, forms |-> {},
     cors |-> {}, jspluss |-> {}, stylespluss |-> {}, files |-> {}]

\* lines 251-256 on page r of the node at base_url: each list(set(...)) is
\* kept as the set; extract_cors tests hasattr on the headers, which no
\* header name satisfies, so cors is empty
Extract(base_url, r) ==
    [NoUrls EXCEPT
        !.js = {normalize_url(base_url, x, FALSE) : x \in r.script},
        !.links = {normalize_url(base_url, x, TRUE) : x \in r.a},
        !.styles = {normalize_url(base_url, x, FALSE) : x \in r.link},
        !.images = {normalize_url(base_url, x, FALSE) : x \in r.img},
        !.forms = {normalize_url(base_url, x, TRUE) : x \in r.form}]

\* lines 314-318 and 326-328 for a node without childs, scope=False: the
\* node's own URLs, normalized
OwnUrls(base_url, urls) ==
    LET all == urls.js \cup urls.links \cup urls.styles \cup urls.images
               \cup urls.forms \cup urls.cors \cup urls.jspluss
               \cup urls.stylespluss \cup urls.files
    IN  {normalize_url(base_url, x, FALSE) : x \in {y \in all : StartsWith(y, "http")}}

\* line 261
Files(base_url, urls) ==
    {x \in OwnUrls(base_url, urls) : EndsWith(x, ".json") \/ EndsWith(x, ".xml")}

\* lines 265-266
ChildCandidates(f) ==
    {x \in filter_scope(f.domain, f.urls.links \cup f.urls.forms) :
        url_extension(f.base_url, x) \notin skip_extensions}

\* a recursion that does not spend its budget
ChildDeep_Same(deep) == deep

\* line 269: deep=deep - 1
ChildDeep(deep) == deep - 1

\* lines 232-241: the frame of HiddenGems(url, deep, active_crawl) as crawl starts
Frame(url, deep, active) ==
    [url |-> url, domain |-> urlparse(url).netloc, base_url |-> get_base_url(url),
     deep |-> deep, active |-> active, pc |-> "fetch", urls |-> NoUrls,
     todo |-> {}, acc |-> {}, childs |-> <<>>]

-----------------------------------------------------------------------------
(* SpecCrawl: one crawl invocation, HiddenGems(url, deep, active_crawl) *)

\* largest depth budget
MaxDeep == 1

SeedUrl == "http://acme.example/"

\* what one requests.get may give.  kind: "exc" (it raised), "other" (a
\* Content-Type without text/html) or "html"; a, form, script, link, img:
\* the href / action / src attributes of the page's tags; raw: the absolute
\* URLs extract_raw_links finds in the text
Fetches ==
    { [kind |-> "exc", a |-> {}, form |-> {}, script |-> {}, link |-> {},
       img |-> {}, raw |-> {}],
      [kind |-> "other", a |-> {}, form |-> {}, script |-> {}, link |-> {},
       img |-> {}, raw |-> {"http://acme.example/data.json", "http://acme.example/a"}],
      [kind |-> "html", a |-> {"a", "http://acme.example/a", "b?x=1", "/"},
       form |-> {}, script |-> {"app.js"}, link |-> {}, img |-> {"logo.png"},
       raw |-> {}],
      [kind |-> "html", a |-> {"/", "b?x=1", "http://cdn.other.example/x", "doc.pdf"},
       form |-> {"/a"}, script |-> {"/app.js"}, link |-> {"data.json"}, img |-> {},
       raw |-> {"http://acme.example/a"}] }

InitCrawl ==
    /\ known_urls = <<>>
    /\ \E deep \in 0..MaxDeep, active \in BOOLEAN :
          stack = <<Frame(SeedUrl, deep, active)>>
    /\ fetched = <<>>
    /\ tree = <<>>
    /\ crawlpc = "run"
    /\ web = Fetches
    /\ listing = NoListing
    /\ IdleClassify /\ IdlePerm /\ IdlePool

Top == stack[Len(stack)]
SetTop(f) == [stack EXCEPT ![Len(stack)] = f]

\* lines 244-262 up to the first crawl_raw_urls
CrawlFetch ==
    /\ crawlpc = "run"
    /\ Top.pc = "fetch"
    /\ known_urls' = Remember(known_urls, Top.url)
    /\ \E r \in web :
          /\ fetched' = Append(fetched, <<"page", Top.url, r.kind>>)
          /\ IF r.kind # "html"
             THEN stack' = SetTop([Top EXCEPT !.pc = "childs"])       \* return False
             ELSE LET urls == Extract(Top.base_url, r)
                  IN  stack' = SetTop([Top EXCEPT
                                         !.urls = urls,
                                         !.pc = IF Top.active THEN "js" ELSE "deep",
                                         !.todo = IF Top.active THEN urls.js ELSE {},
                                         !.acc = {}])
    /\ UNCHANGED <<tree, crawlpc, web, listing, classifyVars,
                   permVars, poolVars>>

\* lines 273-283: one iteration of crawl_raw_urls' loop (a list(set(...))
\* is walked in any order)
CrawlRaw ==
    /\ crawlpc = "run"
    /\ Top.pc \in {"js", "styles", "files"}
    /\ \E url \in Top.todo :
          IF IsKnown(url)
          THEN /\ stack' = SetTop([Top EXCEPT !.todo = @ \ {url}])
               /\ UNCHANGED <<known_urls, fetched>>
          ELSE /\ known_urls' = Remember(known_urls, url)
               /\ IF url_extension(Top.base_url, url) \in skip_extensions
                  THEN /\ stack' = SetTop([Top EXCEPT !.todo = @ \ {url}])
                       /\ UNCHANGED fetched
                  ELSE \E r \in web :
                          /\ fetched' = Append(fetched, <<"raw", url, r.kind>>)
                          /\ stack' = SetTop([Top EXCEPT
                                !.todo = @ \ {url},
                                !.acc = IF r.kind = "exc" THEN @ ELSE @ \cup r.raw])
    /\ UNCHANGED <<tree, crawlpc, web, listing, classifyVars,
                   permVars, poolVars>>

\* lines 259-262 and 284: crawl_raw_urls returns and the next pass starts
CrawlRawDone ==
    /\ crawlpc = "run"
    /\ Top.pc \in {"js", "styles", "files"}
    /\ Top.todo = {}
    /\ stack' = SetTop(
          IF Top.pc = "js"
          THEN [Top EXCEPT !.urls.jspluss = Top.acc, !.pc = "styles",
                           !.todo = Top.urls.styles, !.acc = {}]
          ELSE IF Top.pc = "styles"
          THEN LET urls == [Top.urls EXCEPT !.stylespluss = Top.acc]
               IN  [Top EXCEPT !.urls = urls, !.pc = "files",
                               !.todo = Files(Top.base_url, urls), !.acc = {}]
          ELSE [Top EXCEPT !.urls.files = Top.acc, !.pc = "deep", !.acc = {}])
    /\ UNCHANGED <<known_urls, fetched, tree, crawlpc, web, listing, classifyVars,
                   permVars, poolVars>>

\* lines 264-266
CrawlDeep ==
    /\ crawlpc = "run"
    /\ Top.pc = "deep"
    /\ stack' = SetTop([Top EXCEPT
                          !.pc = "childs",
                          !.todo = IF Top.deep > 0 THEN ChildCandidates(Top) ELSE {}])
    /\ UNCHANGED <<known_urls, fetched, tree, crawlpc, web, listing, classifyVars,
                   permVars, poolVars>>

\* lines 267-269: one iteration of the loop over childs
CrawlChild ==
    /\ crawlpc = "run"
    /\ Top.pc = "childs"
    /\ \E child \in Top.todo :
          LET rest == SetTop([Top EXCEPT !.todo = @ \ {child}])
          IN  IF IsKnown(child)
              THEN stack' = rest
              ELSE stack' = Append(rest, Frame(child, ChildDeep(Top.deep), Top.active))
    /\ UNCHANGED <<known_urls, fetched, tree, crawlpc, web, listing, classifyVars,
                   permVars, poolVars>>

\* crawl and __init__ return: the node is complete and joins its parent's childs
CrawlReturn ==
    /\ crawlpc = "run"
    /\ Top.pc = "childs"
    /\ Top.todo = {}
    /\ tree' = Append(tree, [url |-> Top.url, domain |-> Top.domain,
                             base_url |-> Top.base_url, deep |-> Top.deep,
                             urls |-> Top.urls, childs |-> Top.childs])
    /\ IF Len(stack) = 1
       THEN /\ crawlpc' = "returned"
            /\ stack' = stack
       ELSE /\ crawlpc' = crawlpc
            /\ stack' = [SubSeq(stack, 1, Len(stack) - 1) EXCEPT
                           ![Len(stack) - 1].childs = Append(@, Len(tree) + 1)]
    /\ UNCHANGED <<known_urls, fetched, web, listing, classifyVars, permVars, poolVars>>

NextCrawl ==
    CrawlFetch \/ CrawlRaw \/ CrawlRawDone \/ CrawlDeep \/ CrawlChild \/ CrawlReturn

SpecCrawl == InitCrawl /\ [][NextCrawl]_vars

\* C10: within one crawl invocation no URL is requested twice, page fetches
\* of crawl and resource fetches of crawl_raw_urls counted together, and the
\* visited list known_urls only grows.
C10_NoRefetch ==
    /\ [](\A i, j \in 1..Len(fetched) : fetched[i][2] = fetched[j][2] => i = j)
    /\ [][/\ Len(known_urls') >= Len(known_urls)
          /\ SubSeq(known_urls', 1, Len(known_urls)) = known_urls]_vars

\* the crawl is over; a child page that linked back to the seed, and to a
\* page its sibling branch also reaches, was crawled, and resources were fetched
C10_Witness ==
    /\ crawlpc = "returned"
    /\ Len(tree) >= 3
    /\ \E n \in 1..Len(tree) :
          /\ tree[n].url # SeedUrl
          /\ SeedUrl \in tree[n].urls.links
          /\ \E m \in 1..Len(tree) :
                m # n /\ tree[m].url # SeedUrl /\ tree[m].url \in tree[n].urls.links \cup tree[n].urls.forms
    /\ \E i \in 1..Len(fetched) : fetched[i][1] = "raw"

-----------------------------------------------------------------------------
(* HiddenGems.list_urls *)

\* the characters of the URLs in code point order
Chars == "-./0123456789:=?_abcdefghijklmnopqrstuvwxyz"

\* the rank of the one-character c among Chars, in place of ord(c)
ord(c) == IndexOf(Chars, c)

\* Python's a < b on str, deciding from position i on
RECURSIVE LessFrom(_, _, _)
LessFrom(a, b, i) ==
    IF i > Len(b) THEN FALSE
    ELSE IF i > Len(a) THEN TRUE
    ELSE IF SubSeq(a, i, i) # SubSeq(b, i, i)
         THEN ord(SubSeq(a, i, i)) < ord(SubSeq(b, i, i))
         ELSE LessFrom(a, b, i + 1)

\* a < b on str
StrLess(a, b) == LessFrom(a, b, 1)

\* the least string of the non-empty set S
Least(S) == CHOOSE x \in S : \A y \in S \ {x} : StrLess(x, y)

\* line 327: result.sort(), on the distinct entries of result
RECURSIVE sort(_)
sort(S) == IF S = {} THEN <<>> ELSE <<Least(S)>> \o sort(S \ {Least(S)})

\* every order in which iterating over the set S can give its elements: a
\* set of str is walked in the order of the salted hashes of its elements
RECURSIVE SetIterations(_)
SetIterations(S) ==
    IF S = {} THEN {<<>>}
    ELSE UNION {{<<x>> \o t : t \in SetIterations(S \ {x})} : x \in S}

\* all the lists of self.urls.values() of a node, as one set
AllUrls(urls) ==
    urls.js \cup urls.links \cup urls.styles \cup urls.images \cup urls.forms
        \cup urls.cors \cup urls.jspluss \cup urls.stylespluss \cup urls.files

\* a listing that leaves the child subtree out
RECURSIVE list_urls_NoChilds(_, _, _)
list_urls_NoChilds(n, scope, full_query) ==
    {normalize_url(tree[n].base_url, x, full_query) :
        x \in {y \in AllUrls(tree[n].urls) : StartsWith(y, "http")}}

\* lines 314-326 on the finished node tree[n]: the entries of result when
\* line 327 is reached (line 321 calls the child with scope only, so the
\* child's entries come without their query)
RECURSIVE list_urls(_, _, _)
list_urls(n, scope, full_query) ==
    LET result == {y \in AllUrls(tree[n].urls) : StartsWith(y, "http")}
                    \cup UNION {list_urls(tree[n].childs[i], scope, FALSE) :
                                  i \in 1..Len(tree[n].childs)}
    IN  {normalize_url(tree[n].base_url, x, full_query) :
            x \in IF scope THEN filter_scope(tree[n].domain, result) ELSE result}

\* the elements of a list
Range(seq) == {seq[i] : i \in 1..Len(seq)}

-----------------------------------------------------------------------------
(* SpecList: one crawl invocation, then list_urls on the seed node *)

\* the pages of a site whose listings stay short
ListFetches ==
    { [kind |-> "exc", a |-> {}, form |-> {}, script |-> {}, link |-> {},
       img |-> {}, raw |-> {}],
      [kind |-> "other", a |-> {}, form |-> {}, script |-> {}, link |-> {},
       img |-> {}, raw |-> {}],
      [kind |-> "html", a |-> {"a", "http://acme.example/a",
                               "http://cdn.other.example/x"},
       form |-> {}, script |-> {}, link |-> {}, img |-> {}, raw |-> {}],
      [kind |-> "html", a |-> {"c"}, form |-> {}, script |-> {"app.js"},
       link |-> {}, img |-> {}, raw |-> {}] }

InitList ==
    /\ known_urls = <<>>
    /\ \E deep \in 0..MaxDeep, active \in BOOLEAN :
          stack = <<Frame(SeedUrl, deep, active)>>
    /\ fetched = <<>>
    /\ tree = <<>>
    /\ crawlpc = "run"
    /\ web = ListFetches
    /\ listing = NoListing
    /\ IdleClassify /\ IdlePerm /\ IdlePool

\* lines 313-328 on the seed node, the last node to finish: the sorted
\* result goes through set() and comes back as a list in iteration order
ListUrls ==
    /\ crawlpc = "returned"
    /\ \E scope \in BOOLEAN, full_query \in BOOLEAN :
          \E result \in SetIterations(Range(sort(list_urls(Len(tree), scope, full_query)))) :
             listing' = [scope |-> scope, full_query |-> full_query, result |-> result]
    /\ crawlpc' = "listed"
    /\ UNCHANGED <<known_urls, stack, fetched, tree, web, classifyVars, permVars,
                   poolVars>>

NextList == NextCrawl \/ ListUrls

SpecList == InitList /\ [][NextList]_vars

\* the host of the invocation's seed
SeedDomain == urlparse(SeedUrl).netloc

\* the URLs of S outside the host domain
Foreign(domain, S) == {x \in S : urlparse(x).netloc # domain}

\* C11: a link or form action to another host is never recursed into (no
\* frame, no finished child and no page fetch of crawl is on another host than
\* its parent's) and is in no list_urls(scope=True) of a node, the seed's
\* returned listing included.
C11_OutOfScopeNeverFollowed ==
    /\ \A i \in 2..Len(stack) : stack[i].domain = stack[i - 1].domain
    /\ \A n \in 1..Len(tree) :
          /\ \A i \in 1..Len(tree[n].childs) :
                tree[tree[n].childs[i]].domain = tree[n].domain
          /\ \A full_query \in BOOLEAN :
                Foreign(tree[n].domain, list_urls(n, TRUE, full_query)) = {}
    /\ \A i \in 1..Len(fetched) :
          fetched[i][1] = "page" => urlparse(fetched[i][2]).netloc = SeedDomain
    /\ (crawlpc = "listed" /\ listing.scope)
          => Foreign(SeedDomain, Range(listing.result)) = {}

\* list_urls(scope=True) returned for a seed that recursed into its links and
\* whose page, like a child's, links to another host
C11_Witness ==
    /\ crawlpc = "listed"
    /\ listing.scope
    /\ listing.result # <<>>
    /\ Len(tree[Len(tree)].childs) >= 1
    /\ Foreign(SeedDomain, tree[Len(tree)].urls.links) # {}
    /\ \E n \in 1..(Len(tree) - 1) : Foreign(SeedDomain, tree[n].urls.links) # {}

\* seq has no two equal entries and ascends in str order
Ascending(seq) == \A i, j \in 1..Len(seq) : i < j => StrLess(seq[i], seq[j])

\* C12: the list list_urls returns holds every normalized URL of the subtree
\* exactly once and is in sorted order.
C12_UniqueAndSorted ==
    crawlpc = "listed"
        => /\ Range(listing.result)
                = list_urls(Len(tree), listing.scope, listing.full_query)
           /\ Ascending(listing.result)

-----------------------------------------------------------------------------
(* the crawl's depth budget and its failed fetches *)

\* the scheduler keeps running the one thread of the crawl
SpecCrawlFair == SpecCrawl /\ WF_vars(NextCrawl)

\* the frame at recursion level k was built with what the budget leaves there
BudgetAtLevel ==
    \A k \in 1..Len(stack) :
        stack[k].deep = stack[1].deep - (k - 1) /\ stack[k].deep >= 0

\* a finished child was built with one less than its parent
BudgetInTree ==
    \A n \in 1..Len(tree) : \A i \in 1..Len(tree[n].childs) :
        tree[tree[n].childs[i]].deep = tree[n].deep - 1

\* with no budget, crawl fetches the seed page alone
SeedOnlyAtZero ==
    stack[1].deep = 0
        => \A i \in 1..Len(fetched) : fetched[i][1] = "page" => fetched[i][2] = SeedUrl

\* C18: a crawl started with budget d terminates, cycles in the link graph
\* included; the node at recursion level k has budget d - k, none is deeper
\* than d, and with d = 0 crawl fetches the seed page only.
C18_BudgetAndTermination ==
    /\ <>(crawlpc = "returned")
    /\ [](BudgetAtLevel /\ BudgetInTree /\ SeedOnlyAtZero)

\* a crawl with budget has returned; a child at budget 0 has same-host links,
\* one of them back to the seed, and no childs of its own
C18_Witness ==
    /\ crawlpc = "returned"
    /\ stack[1].deep >= 1
    /\ \E n \in 1..(Len(tree) - 1) :
          /\ tree[n].deep = 0
          /\ SeedUrl \in tree[n].urls.links
          /\ ChildCandidates(tree[n]) # {}
          /\ tree[n].childs = <<>>

\* the page fetch of the finished node n raised or gave no HTML
Failed(n) ==
    \E i \in 1..Len(fetched) :
        /\ fetched[i][1] = "page"
        /\ fetched[i][2] = tree[n].url
        /\ fetched[i][3] # "html"

\* C19: a node whose fetch failed or gave no HTML ends without URLs and
\* without childs; its parent still gets every child candidate requested, and
\* list_urls of a node holds the node's own URLs and those of each child.
C19_FailedNodeIsolated ==
    \A n \in 1..Len(tree) :
        /\ Failed(n) => (tree[n].urls = NoUrls /\ tree[n].childs = <<>>)
        /\ tree[n].deep > 0
              => \A c \in ChildCandidates(tree[n]) :
                    \E i \in 1..Len(fetched) : fetched[i][2] = c
        /\ crawlpc = "returned"
              => /\ OwnUrls(tree[n].base_url, tree[n].urls)
                        \subseteq list_urls(n, FALSE, FALSE)
                 /\ \A i \in 1..Len(tree[n].childs) :
                        list_urls(tree[n].childs[i], FALSE, FALSE)
                            \subseteq list_urls(n, FALSE, FALSE)

\* the crawl returned; a node's first child failed, a later child gave URLs
C19_Witness ==
    /\ crawlpc = "returned"
    /\ \E n \in 1..Len(tree) :
          /\ Len(tree[n].childs) >= 2
          /\ Failed(tree[n].childs[1])
          /\ ~Failed(tree[n].childs[2])
          /\ OwnUrls(tree[tree[n].childs[2]].base_url, tree[tree[n].childs[2]].urls)
                \ OwnUrls(tree[n].base_url, tree[n].urls) # {}

-----------------------------------------------------------------------------
(* Further claims about process_status and get_rights, under SpecClassify *)

\* the permissions C13 gives a symbol to
MappedPermissions == {"READ", "READ_ACP", "WRITE", "WRITE_ACL", "FULL_CONTROL"}

\* the symbol C13 gives to a permission
SymbolOf(perm) ==
    IF perm \in {"READ", "READ_ACP"} THEN "R"
    ELSE IF perm \in {"WRITE", "WRITE_ACL"} THEN "W"
    ELSE "F"

\* a non-empty grant list whose grantees all have a key and whose
\* permissions all have a symbol
WellFormedGrants(grants) ==
    /\ Len(grants) >= 1
    /\ \A i \in 1..Len(grants) :
          GranteeKey(grants[i]) # NoKey /\ grants[i].Permission \in MappedPermissions

\* one entry per distinct grantee key in first-seen order, each with the
\* symbols of that grantee's grants, unrepeated, in first-seen order
RECURSIVE GranteeSymbols(_, _, _)
GranteeSymbols(grants, i, rights) ==
    IF i > Len(grants) THEN rights
    ELSE GranteeSymbols(grants, i + 1,
             AddRight(rights, GranteeKey(grants[i]), SymbolOf(grants[i].Permission)))

\* C13: for a grant list _aws_acl processes, the details gain exactly one
\* line "{grantee} [{symbols}]" per distinct grantee key, with that grantee's
\* symbols unrepeated in first-seen order, and risk is HIGH whenever a W or F
\* symbol is recorded.
C13_OneLinePerGrantee ==
    (ClsOver /\ cacl = "aws" /\ cenv.akind = "grants" /\ WellFormedGrants(cenv.grants))
        => /\ cpc = "returned"
           /\ cb.details
                 = RightsDetails(cbase.details, GranteeSymbols(cenv.grants, 1, <<>>))
           /\ (\E i \in 1..Len(cenv.grants) :
                   SymbolOf(cenv.grants[i].Permission) \in {"W", "F"})
                 => cb.risk = "HIGH"

\* what a classification shows of a Bucket
Outcome(b) == <<b.state, b.risk, b.details>>

\* the Buckets a worker may construct
FreshBuckets == {Bucket(n, n \o "." \o s[3], s[1], s[2]) : n \in Names, s \in Services}

\* b2 is a candidate that agrees with the classified one on being the seed name
AgreesOnSeed(b2) == (b2.name = base_name) <=> (cb.name = base_name)

\* C14 as stated: any other run of process_status on a fresh Bucket that
\* agrees on (name equals seed, status, content type, history, final URL)
\* ends with the same (state, risk, details).
C14_SameInputsSameResult ==
    ClsOver =>
        \A b2 \in {b \in FreshBuckets : AgreesOnSeed(b)} :
            \A env \in AclEnvs(BaseClass(b2, cresp)) :
                Outcome(process_status(b2, cresp, env).b) = Outcome(cb)

\* C14 amended: the classification handed to get_rights (or returned for the
\* failure marker) is the same for every fresh Bucket that agrees on (name
\* equals seed, status, content type, history, final URL); the final result
\* is determined by these, the Bucket's name, domain and provider, and the
\* answers to the ACL requests.
C14_BaseClassDeterministic ==
    /\ cpc # "new" =>
          \A b2 \in {b \in FreshBuckets : AgreesOnSeed(b)} :
              Outcome(BaseClass(b2, cresp)) = Outcome(cbase)
    /\ ClsOver =>
          cb = process_status(Bucket(cb.name, cb.domain, cb.cloud, cb.srv_name),
                              cresp, cenv).b

\* an azure candidate answered 403 ends OPEN / HIGH on a listable container
C14_Witness ==
    /\ cpc = "returned"
    /\ cresp # False
    /\ cresp.status_code = 403
    /\ cbase.state = "PRIVATE"
    /\ AzureFound(cb)
    /\ cb.state = "OPEN"

\* C15: for every azure Bucket passed to the classifier _azure_acl is
\* called, whatever the state, DOMAIN for the failure marker included.
C15_AzureAlwaysEnumerated ==
    (ClsOver /\ cb.cloud = "azure") => cacl = "azure"

\* C16: _google_acl and _aws_acl are called only on a Bucket that is OPEN
\* once the status rule and the redirect override are applied; a Bucket made
\* PRIVATE by the login override or classified PRIVATE, UNKNOWN or DOMAIN
\* gets no Google or AWS ACL request, and a generic one no ACL request at all.
C16_AclOnlyWhenOpen ==
    /\ cacl \in {"google", "aws"} => (cbase.state = "OPEN" /\ cacl = cb.cloud)
    /\ (ClsOver /\ cb.cloud \in {"google", "aws"}
            /\ (LoginRedirect(cresp) \/ cbase.state \in {"PRIVATE", "UNKNOWN", "DOMAIN"}))
          => (cacl = "none" /\ cb = cbase)
    /\ cb.cloud = "generic" => cacl = "none"

\* a google candidate answered 200 behind a login redirect returned
C16_Witness ==
    /\ cpc = "returned"
    /\ cb.cloud = "google"
    /\ cresp # False
    /\ cresp.status_code = 200
    /\ LoginRedirect(cresp)
    /\ cacl = "none"

\* C17: for the failure marker the state becomes DOMAIN, details stay empty
\* and risk is LOW, or MEDIUM when the candidate name equals the seed name.
C17_DomainKeepsSeedRisk ==
    (ClsOver /\ cresp = False)
        => /\ cb.state = "DOMAIN"
           /\ cb.details = <<>>
           /\ cb.risk = IF cb.name = base_name THEN "MEDIUM" ELSE "LOW"

-----------------------------------------------------------------------------
(* The workers' loop exit, under SpecPoolFair *)

\* C20: no worker stays blocked in q.get() for ever: a worker that is at
\* q.get() eventually leaves it.
C20_NoWorkerStuckInGet ==
    \A w \in 1..MaxWorkers : (wpc[w] = "get") ~> (wpc[w] # "get")

-----------------------------------------------------------------------------
(* The symbols of _aws_acl's detail lines, under SpecClassify *)

\* the symbols of the permissions the document grants to the grantee key k
GrantedSymbols(grants, k) ==
    {SymbolOf(grants[i].Permission) :
        i \in {j \in 1..Len(grants) :
                  GranteeKey(grants[j]) = k /\ grants[j].Permission \in MappedPermissions}}

\* the symbols of the detail line "k [symbols]"
LineSymbols(line, k) == SubSeq(line, Len(k) + 3, Len(line) - 1)

\* C21: each symbol a detail line of _aws_acl lists for a grantee stems from
\* a permission the document grants to that grantee; a grant with another
\* permission than READ, READ_ACP, WRITE, WRITE_ACL, FULL_CONTROL adds none.
C21_SymbolsStemFromGrants ==
    (cpc = "returned" /\ cacl = "aws" /\ cenv.akind = "grants")
        => \A j \in (Len(cbase.details) + 1)..Len(cb.details) :
              \E i \in 1..Len(cenv.grants) :
                  /\ StartsWith(cb.details[j], GranteeKey(cenv.grants[i]) \o " [")
                  /\ \A c \in {"R", "W", "F"} :
                        Contains(LineSymbols(cb.details[j], GranteeKey(cenv.grants[i])), c)
                            => c \in GrantedSymbols(cenv.grants, GranteeKey(cenv.grants[i]))

-----------------------------------------------------------------------------
(* The Buckets that reach a result list, under SpecClassify *)

\* b is not CLOSE, is rated MEDIUM or HIGH when OPEN, and LOW only when
\* PRIVATE or DOMAIN
WellClassified(b) ==
    /\ b.state # "CLOSE"
    /\ b.state = "OPEN" => b.risk \in {"MEDIUM", "HIGH"}
    /\ b.risk = "LOW" => b.state \in {"PRIVATE", "DOMAIN"}

\* C22: the Bucket process_status returns, the one a worker then appends to
\* the result list (lines 456-459, 528-531), is never CLOSE, is MEDIUM or
\* HIGH when OPEN, and is LOW only when PRIVATE or DOMAIN, whatever the status
\* rule, the seed-name rule, the redirect override and the ACL enumeration did.
C22_ResultWellClassified ==
    cpc = "returned" => WellClassified(cb)

\* an azure candidate redirected to a login page, PRIVATE / LOW after the
\* override, returned OPEN / HIGH from a listable share or container
C22_Witness ==
    /\ cpc = "returned"
    /\ LoginRedirect(cresp)
    /\ cbase.state = "PRIVATE"
    /\ cbase.risk = "LOW"
    /\ AzureFound(cb)
    /\ cb.state = "OPEN"
    /\ cb.risk = "HIGH"

====
